---- MODULE Spec2Model ----
(***************************************************************************)
(* MQTT binary sensor (homeassistant/components/binary_sensor/mqtt.py).    *)
(*                                                                         *)
(* One MqttBinarySensor entity, the MQTT transport's table of live         *)
(* subscriptions and the event helper's table of live one-shot timers.     *)
(* A callback (the message callback, the timer callback) runs to           *)
(* completion on the event loop and is one action.  A coroutine            *)
(* (async_added_to_hass, discovery_update, async_will_remove_from_hass)    *)
(* runs up to its next await in one action; while it is suspended the      *)
(* event loop runs other callbacks and coroutines.  Time is counted in whole seconds: a timer holds the    *)
(* seconds that remain before it fires, Tick lets one second pass, and a   *)
(* timer whose time is up fires before more time passes.                   *)
(***************************************************************************)
EXTENDS Integers, FiniteSets, Sequences, Bags, TLC

\* ---------------------------------------------------------------- bounds
MaxDelay == 2       \* off_delay is drawn from 0..MaxDelay (seconds)
MaxTimers == 2      \* timer handles the event helper can hand out
MaxSubs == 2        \* subscription handles the transport can hand out

\* ------------------------------------------------------------- constants
None == "None"                  \* Python None, for the string-valued fields
NoDelay == -1                   \* Python None, for off_delay (an int >= 0 when set)
NoHandle == 0                   \* Python None, for _sub_state and _delay_listener

DEFAULT_NAME == "MQTT Binary sensor"
DEFAULT_PAYLOAD_OFF == "OFF"
DEFAULT_PAYLOAD_ON == "ON"
DEFAULT_FORCE_UPDATE == FALSE

JsonOn == "{\"state\": \"ON\"}"
JsonOff == "{\"state\": \"OFF\"}"
ValueJsonState == "{{ value_json.state }}"

Topics == {"home/a", "home/b"}
Payloads == {"", "ON", "OFF", JsonOn, JsonOff}
OffDelays == {NoDelay} \cup (0..MaxDelay)

\* The fields of a validated configuration that the entity only stores: one
\* sensor on each topic, the first with the schema's defaults.
Profile(topic) ==
    IF topic = "home/a"
    THEN [name |-> DEFAULT_NAME, device_class |-> None, qos |-> 0,
          force_update |-> DEFAULT_FORCE_UPDATE, unique_id |-> None]
    ELSE [name |-> "Hall motion", device_class |-> "motion", qos |-> 1,
          force_update |-> TRUE, unique_id |-> "hall-1"]

\* A validated configuration.
Config(t, d, pp, tpl) ==
    [name |-> Profile(t).name, state_topic |-> t,
     device_class |-> Profile(t).device_class, qos |-> Profile(t).qos,
     force_update |-> Profile(t).force_update, off_delay |-> d,
     payload_on |-> pp[1], payload_off |-> pp[2], value_template |-> tpl,
     unique_id |-> Profile(t).unique_id]

\* The configurations the timing properties are checked over, with the
\* default tokens and no template: every off_delay on one topic, and the
\* other topic without off_delay.
TimingConfigs ==
    {Config("home/a", d, <<DEFAULT_PAYLOAD_ON, DEFAULT_PAYLOAD_OFF>>, None) :
        d \in OffDelays}
    \cup
    {Config("home/b", NoDelay, <<DEFAULT_PAYLOAD_ON, DEFAULT_PAYLOAD_OFF>>, None)}

\* Configurations PLATFORM_SCHEMA lets through: those above, the tokens
\* swapped, both tokens the same with the longest off_delay, and a value
\* template.
Configs ==
    TimingConfigs
    \cup
    {Config("home/a", NoDelay, <<DEFAULT_PAYLOAD_OFF, DEFAULT_PAYLOAD_ON>>, None),
     Config("home/a", MaxDelay, <<DEFAULT_PAYLOAD_ON, DEFAULT_PAYLOAD_ON>>, None),
     Config("home/a", NoDelay, <<DEFAULT_PAYLOAD_ON, DEFAULT_PAYLOAD_OFF>>,
            ValueJsonState)}

\* ----------------------------------------------------------------- state
VARIABLES
    self,           \* the MqttBinarySensor: its attributes, by their names
    subs,           \* transport: the live subscriptions [id, topic]
    timers,         \* event helper: the live timers [id, remaining]
    tasks,          \* event loop: the bag of the frames of the entity's
                    \* coroutines that are suspended at an await
    dispatch,       \* transport: the published message whose callback is
                    \* still to run for some of its subscriptions
    lastCall,       \* the callback or coroutine segment that ran last, what
                    \* it emitted, its steps, the await it stopped at
    armed           \* of the last matched message: the off-delay it started,
                    \* the seconds elapsed since

vars == <<self, subs, timers, tasks, dispatch, lastCall, armed>>

\* --------------------------------------------------------- collaborators
\* Template.async_render_with_possible_json_value for the template
\* {{ value_json.state }}: the "state" member of a JSON payload, and the
\* empty string for a payload that is no JSON object with that member.
async_render_with_possible_json_value(template, payload) ==
    IF template = ValueJsonState
    THEN (CASE payload = JsonOn -> "ON"
            [] payload = JsonOff -> "OFF"
            [] OTHER -> "")
    ELSE payload

\* Handles not in use among the records of a table.
FreeHandles(table, max) == {i \in 1..max : \A r \in table : r.id # i}

NewHandle(table, max) ==
    CHOOSE i \in FreeHandles(table, max) : \A j \in FreeHandles(table, max) : i <= j

\* evt.async_call_later(hass, delay, action): a new one-shot timer; the value
\* returned to the caller is the handle that cancels it.
async_call_later(tm, delay) ==
    LET h == NewHandle(tm, MaxTimers)
    IN  [handle |-> h, timers |-> tm \cup {[id |-> h, remaining |-> delay]}]

\* Calling the function async_call_later returned: the timer is removed.
CancelTimer(tm, handle) == {t \in tm : t.id # handle}

\* subscription.async_subscribe_topics(hass, sub_state, topics) with the one
\* topic of this platform: the subscription sub_state holds is torn down (one
\* unsubscribe call for the handle it holds) and a new one is established;
\* the new handle is returned.
async_subscribe_topics(sb, sub_state, topic) ==
    LET kept == {s \in sb : s.id # sub_state}
        h == NewHandle(kept, MaxSubs)
    IN  [sub_state |-> h, subs |-> kept \cup {[id |-> h, topic |-> topic]},
         unsubscribed |-> IF sub_state # NoHandle THEN 1 ELSE 0]

\* subscription.async_unsubscribe_topics(hass, sub_state): the subscription
\* sub_state holds is torn down (one unsubscribe call for the handle it
\* holds); the empty sub_state is returned.
async_unsubscribe_topics(sb, sub_state) ==
    [sub_state |-> NoHandle, subs |-> {s \in sb : s.id # sub_state},
     unsubscribed |-> IF sub_state # NoHandle THEN 1 ELSE 0]

\* ------------------------------------------------------------ the entity
\* What a callback or a coroutine works on: the entity, the two
\* collaborators' tables, and what it has emitted so far (warnings logged,
\* state refreshes requested, timers cancelled, timers scheduled, unsubscribe
\* calls made), with the order of its steps and the line of the await it is
\* suspended at (0: it has returned).
World ==
    [self |-> self, subs |-> subs, timers |-> timers,
     diag |-> 0, refresh |-> 0, cancelled |-> 0, scheduled |-> 0,
     unsubscribed |-> 0, steps |-> <<>>, pc |-> 0]

\* self.async_schedule_update_ha_state()
async_schedule_update_ha_state(w) ==
    [w EXCEPT !.refresh = @ + 1, !.steps = Append(@, "refresh")]

\* Faulty variant: loading a configuration also forgets the pending timer.
_setup_from_config_forgets_timer(w, config) ==
    [w EXCEPT !.self._name = config.name,
              !.self._state_topic = config.state_topic,
              !.self._device_class = config.device_class,
              !.self._qos = config.qos,
              !.self._force_update = config.force_update,
              !.self._off_delay = config.off_delay,
              !.self._payload_on = config.payload_on,
              !.self._payload_off = config.payload_off,
              !.self._template = config.value_template,
              !.self._unique_id = config.unique_id,
              !.self._delay_listener = NoHandle,
              !.steps = Append(@, "configure")]

\* _setup_from_config(config)
_setup_from_config(w, config) ==
    [w EXCEPT !.self._name = config.name,
              !.self._state_topic = config.state_topic,
              !.self._device_class = config.device_class,
              !.self._qos = config.qos,
              !.self._force_update = config.force_update,
              !.self._off_delay = config.off_delay,
              !.self._payload_on = config.payload_on,
              !.self._payload_off = config.payload_off,
              !.self._template = config.value_template,
              !.self._unique_id = config.unique_id,
              !.steps = Append(@, "configure")]

\* The attributes __init__ sets before it loads the configuration.
NewEntity ==
    [_state |-> None, _sub_state |-> NoHandle, _delay_listener |-> NoHandle,
     _name |-> None, _state_topic |-> None, _device_class |-> None,
     _payload_on |-> None, _payload_off |-> None, _qos |-> None,
     _force_update |-> None, _off_delay |-> NoDelay, _template |-> None,
     _unique_id |-> None]

\* Faulty variant: the listener clears the handle and refreshes, but leaves the state.
off_delay_listener_keeps_state(w) ==
    async_schedule_update_ha_state(
        [w EXCEPT !.self._delay_listener = NoHandle])

\* Faulty variant: the listener keeps the handle of the timer that fired.
off_delay_listener_keeps_handle(w) ==
    async_schedule_update_ha_state(
        [w EXCEPT !.self._state = "False"])

\* off_delay_listener(now), run by the timer that fired.
off_delay_listener(w) ==
    async_schedule_update_ha_state(
        [w EXCEPT !.self._delay_listener = NoHandle,
                  !.self._state = "False"])

\* The payload state_message_received compares: the template's rendering
\* when a template is configured, the raw payload otherwise.
EffectivePayload(e, payload) ==
    IF e._template # None
    THEN async_render_with_possible_json_value(e._template, payload)
    ELSE payload

\* Faulty variant: the comparison with payload_off is made first.
MatchedState_off_first(e, payload) ==
    IF EffectivePayload(e, payload) = e._payload_off THEN "False"
    ELSE IF EffectivePayload(e, payload) = e._payload_on THEN "True"
    ELSE None

\* The state the payload selects, or None when it matches neither token.
MatchedState(e, payload) ==
    IF EffectivePayload(e, payload) = e._payload_on THEN "True"
    ELSE IF EffectivePayload(e, payload) = e._payload_off THEN "False"
    ELSE None

\* Faulty variant: the handle is dropped without calling it, so the timer stays live.
CancelDelayListener_drop_handle(w) ==
    IF w.self._delay_listener # NoHandle
    THEN [w EXCEPT !.self._delay_listener = NoHandle]
    ELSE w

\* Cancel the pending off-delay timer.
CancelDelayListener(w) ==
    IF w.self._delay_listener # NoHandle
    THEN [w EXCEPT !.timers = CancelTimer(w.timers, w.self._delay_listener),
                   !.self._delay_listener = NoHandle,
                   !.cancelled = @ + 1,
                   !.steps = Append(@, "cancel")]
    ELSE w

\* Faulty variant: the timer is scheduled whatever state the message set.
ScheduleDelayListener_any_state(w) ==
    IF w.self._off_delay # NoDelay
    THEN LET r == async_call_later(w.timers, w.self._off_delay)
         IN  [w EXCEPT !.timers = r.timers,
                       !.self._delay_listener = r.handle,
                       !.scheduled = @ + 1,
                       !.steps = Append(@, "schedule")]
    ELSE w

\* Faulty variant: an off_delay of zero is taken for no off_delay.
ScheduleDelayListener_truthy(w) ==
    IF w.self._state = "True" /\ w.self._off_delay > 0
    THEN LET r == async_call_later(w.timers, w.self._off_delay)
         IN  [w EXCEPT !.timers = r.timers,
                       !.self._delay_listener = r.handle,
                       !.scheduled = @ + 1,
                       !.steps = Append(@, "schedule")]
    ELSE w

\* Schedule the off-delay timer when the state is on and off_delay is set.
ScheduleDelayListener(w) ==
    IF w.self._state = "True" /\ w.self._off_delay # NoDelay
    THEN LET r == async_call_later(w.timers, w.self._off_delay)
         IN  [w EXCEPT !.timers = r.timers,
                       !.self._delay_listener = r.handle,
                       !.scheduled = @ + 1,
                       !.steps = Append(@, "schedule")]
    ELSE w

\* Faulty variant: a payload that matches neither token is taken for payload_off.
state_message_received_else_off(w, payload) ==
    async_schedule_update_ha_state(
        ScheduleDelayListener(
            CancelDelayListener(
                [w EXCEPT !.self._state =
                    IF MatchedState(w.self, payload) = "True"
                    THEN "True" ELSE "False"])))

\* Faulty variant: a timer that is pending is kept, and no new one is scheduled, when
\* the message turns the entity on; only an off message cancels it.
state_message_received_keep_first(w, payload) ==
    IF MatchedState(w.self, payload) = None
    THEN [w EXCEPT !.diag = @ + 1, !.steps = Append(@, "warning")]
    ELSE LET w1 == [w EXCEPT !.self._state = MatchedState(w.self, payload)]
         IN  async_schedule_update_ha_state(
                IF w1.self._state = "True" /\ w1.self._delay_listener # NoHandle
                THEN w1
                ELSE ScheduleDelayListener(CancelDelayListener(w1)))

\* Faulty variant: the unmatched branch logs and does not return.
state_message_received_no_return(w, payload) ==
    async_schedule_update_ha_state(
        ScheduleDelayListener(
            CancelDelayListener(
                IF MatchedState(w.self, payload) = None
                THEN [w EXCEPT !.diag = @ + 1, !.steps = Append(@, "warning")]
                ELSE [w EXCEPT !.self._state = MatchedState(w.self, payload)])))

\* Faulty variant: the pending timer is cancelled only by a message that turns
\* the entity on.
state_message_received_cancel_when_on(w, payload) ==
    IF MatchedState(w.self, payload) = None
    THEN [w EXCEPT !.diag = @ + 1, !.steps = Append(@, "warning")]
    ELSE LET w1 == [w EXCEPT !.self._state = MatchedState(w.self, payload)]
         IN  async_schedule_update_ha_state(
                ScheduleDelayListener(
                    IF w1.self._state = "True"
                    THEN CancelDelayListener(w1) ELSE w1))

\* Faulty variant: the refresh is requested only when the state has changed.
state_message_received_refresh_on_change(w, payload) ==
    IF MatchedState(w.self, payload) = None
    THEN [w EXCEPT !.diag = @ + 1, !.steps = Append(@, "warning")]
    ELSE LET w1 == ScheduleDelayListener(
                     CancelDelayListener(
                       [w EXCEPT !.self._state = MatchedState(w.self, payload)]))
         IN  IF w1.self._state # w.self._state
             THEN async_schedule_update_ha_state(w1) ELSE w1

\* state_message_received(_topic, payload, _qos)
state_message_received(w, payload) ==
    IF MatchedState(w.self, payload) = None
    THEN [w EXCEPT !.diag = @ + 1, !.steps = Append(@, "warning")]
    ELSE async_schedule_update_ha_state(
            ScheduleDelayListener(
                CancelDelayListener(
                    [w EXCEPT !.self._state = MatchedState(w.self, payload)])))

\* _subscribe_topics up to its await (lines 190-193): the arguments the
\* subscription helper is called with, evaluated when the call is made.
SubscribeRequest(e) == [sub_state |-> e._sub_state, topic |-> e._state_topic]

\* No call of the subscription helper has been made yet.
NoRequest == [sub_state |-> NoHandle, topic |-> None]

\* Faulty variant: the helper is not given the subscription held so far, so
\* every activation adds a subscription.
_subscribe_topics_stacks(w, request) ==
    LET r == async_subscribe_topics(w.subs, NoHandle, request.topic)
    IN  [w EXCEPT !.subs = r.subs, !.self._sub_state = r.sub_state,
                  !.unsubscribed = @ + r.unsubscribed,
                  !.steps = Append(@, "subscribe")]

\* _subscribe_topics from the return of the subscription helper (line 190):
\* the helper, called with request, has torn down the subscription of the
\* _sub_state it was given and established one on the topic it was given;
\* its result becomes the new _sub_state.
_subscribe_topics(w, request) ==
    LET r == async_subscribe_topics(w.subs, request.sub_state, request.topic)
    IN  [w EXCEPT !.subs = r.subs, !.self._sub_state = r.sub_state,
                  !.unsubscribed = @ + r.unsubscribed,
                  !.steps = Append(@, "subscribe")]

\* async_will_remove_from_hass up to its first await (line 197): the
\* argument the subscription helper is called with.
UnsubscribeRequest(e) == [sub_state |-> e._sub_state, topic |-> None]

\* Faulty variant: removal also resets the state to unknown.
async_will_remove_from_hass_resets_state(w, request) ==
    LET r == async_unsubscribe_topics(w.subs, request.sub_state)
    IN  [w EXCEPT !.subs = r.subs,
                  !.self._state = None,
                  !.unsubscribed = @ + r.unsubscribed,
                  !.steps = Append(@, "unsubscribe"),
                  !.pc = 198]

\* async_will_remove_from_hass from the return of the subscription helper
\* (line 197) to the await of line 198: the helper has torn down the
\* subscription of the sub_state it was given; the sub_state it returns is
\* not stored.
async_will_remove_from_hass(w, request) ==
    LET r == async_unsubscribe_topics(w.subs, request.sub_state)
    IN  [w EXCEPT !.subs = r.subs,
                  !.unsubscribed = @ + r.unsubscribed,
                  !.steps = Append(@, "unsubscribe"),
                  !.pc = 198]

\* Faulty variant: a discovery update also resets the state to unknown.
discovery_update_resets_state(w, config) ==
    [_setup_from_config([w EXCEPT !.self._state = None], config)
        EXCEPT !.pc = 133]

\* discovery_update(discovery_payload), config being the validated payload,
\* up to its first await (lines 131-133): the configuration is loaded and the
\* coroutine waits for the availability update.
discovery_update(w, config) ==
    [_setup_from_config(w, config) EXCEPT !.pc = 133]

\* Faulty variant: the refresh is requested before the re-subscription.
discovery_update_refresh_first(w, request) ==
    _subscribe_topics(async_schedule_update_ha_state(w), request)

\* discovery_update from the return of the subscription helper: the
\* assignment of line 190, then the refresh of line 135.
discovery_update_resumed(w, request) ==
    async_schedule_update_ha_state(_subscribe_topics(w, request))

\* The live subscriptions of a topic: the transport runs the message callback
\* of each of them, one at a time.
Subscribers(topic) == {s \in subs : s.topic = topic}

\* No published message is being dispatched.
NoDispatch == [topic |-> None, payload |-> None, left |-> 0]

\* The frame of a suspended coroutine: which one, the await it is suspended
\* at, the request it made to the subscription helper, its steps and its
\* unsubscribe calls so far.
Frame(op, w, request) ==
    [op |-> op, pc |-> w.pc, request |-> request, steps |-> w.steps,
     unsubscribed |-> w.unsubscribed]

\* The frame of a coroutine that moves on to its next await.
Moved(t, pc, request) == [t EXCEPT !.pc = pc, !.request = request]

\* The event loop's bag of suspended coroutines with one frame more or less.
Suspended(t) == tasks (+) SetToBag({t})
Resumed(t) == tasks (-) SetToBag({t})

\* The world a suspended coroutine resumes in.
Resume(t) ==
    [World EXCEPT !.steps = t.steps, !.unsubscribed = t.unsubscribed]

\* ------------------------------------------------------------- observers
\* The record of a run: which callback or coroutine, the payload it was
\* given, the number of callbacks run for it, what it emitted, and the await
\* it stopped at.
Call(op, payload, calls, w) ==
    [op |-> op, payload |-> payload, calls |-> calls,
     diag |-> w.diag, refresh |-> w.refresh,
     cancelled |-> w.cancelled, scheduled |-> w.scheduled,
     unsubscribed |-> w.unsubscribed, steps |-> w.steps, pc |-> w.pc]

Commit(w) ==
    /\ self' = w.self
    /\ subs' = w.subs
    /\ timers' = w.timers

\* The observer of matched messages after the callback ran for payload.
ArmedBy(payload) ==
    IF MatchedState(self, payload) # None
    THEN [delay |-> IF MatchedState(self, payload) = "True"
                    THEN self._off_delay ELSE NoDelay,
          elapsed |-> 0]
    ELSE armed

\* The coroutines in flight that will subscribe.
Subscribing ==
    {t \in BagToSet(tasks) : t.op # "async_will_remove_from_hass"}

\* Bound of the model on the coroutines in flight, in terms of the handles
\* the transport can hand out: the event loop is between callbacks and fewer
\* than MaxSubs coroutines are suspended.
MayStart ==
    /\ dispatch.left = 0
    /\ BagCardinality(tasks) < MaxSubs

\* Bound of the model: besides, a subscription handle is left for every
\* subscribing coroutine in flight and one more.
MaySubscribe ==
    /\ MayStart
    /\ Cardinality(subs)
         + BagCardinality([t \in Subscribing |-> tasks[t]]) < MaxSubs

\* ---------------------------------------------------------------- actions
\* __init__(config, discovery_hash): the attributes, then the configuration.
InitOver(configs) ==
    /\ \E config \in configs :
           self = _setup_from_config([self |-> NewEntity, steps |-> <<>>],
                                     config).self
    /\ subs = {}
    /\ timers = {}
    /\ tasks = EmptyBag
    /\ dispatch = NoDispatch
    /\ lastCall = [op |-> "__init__", payload |-> None,
                   calls |-> 0, diag |-> 0, refresh |-> 0,
                   cancelled |-> 0, scheduled |-> 0,
                   unsubscribed |-> 0, steps |-> <<"configure">>, pc |-> 0]
    /\ armed = [delay |-> NoDelay, elapsed |-> 0]

Init == InitOver(Configs)

\* The host calls async_added_to_hass: it runs up to its first await
\* (line 125, MqttAvailability.async_added_to_hass).
AddedToHass ==
    /\ MaySubscribe
    /\ LET w == [World EXCEPT !.pc = 125]
       IN  /\ tasks' = Suspended(Frame("async_added_to_hass", w, NoRequest))
           /\ lastCall' = Call("async_added_to_hass", None, 0, w)
    /\ UNCHANGED <<self, subs, timers, dispatch, armed>>

\* async_added_to_hass resumes from line 125 and waits at line 126
\* (MqttDiscoveryUpdate.async_added_to_hass).
AddedToHassResumes ==
    /\ dispatch.left = 0
    /\ \E t \in BagToSet(tasks) :
        /\ t.op = "async_added_to_hass"
        /\ t.pc = 125
        /\ tasks' = Resumed(t) (+) SetToBag({Moved(t, 126, NoRequest)})
        /\ lastCall' = Call("async_added_to_hass", None, 0,
                            [Resume(t) EXCEPT !.pc = 126])
    /\ UNCHANGED <<self, subs, timers, dispatch, armed>>

\* async_added_to_hass resumes from line 126 and calls _subscribe_topics
\* (line 127), which calls the subscription helper and waits for it.
AddedToHassSubscribes ==
    /\ dispatch.left = 0
    /\ \E t \in BagToSet(tasks) :
        /\ t.op = "async_added_to_hass"
        /\ t.pc = 126
        /\ tasks' = Resumed(t) (+)
                 SetToBag({Moved(t, 190, SubscribeRequest(self))})
        /\ lastCall' = Call("async_added_to_hass", None, 0,
                            [Resume(t) EXCEPT !.pc = 190])
    /\ UNCHANGED <<self, subs, timers, dispatch, armed>>

\* async_added_to_hass from the return of the subscription helper.
AddedToHassReturns ==
    /\ dispatch.left = 0
    /\ \E t \in BagToSet(tasks) :
        /\ t.op = "async_added_to_hass"
        /\ t.pc = 190
        /\ LET w == _subscribe_topics(Resume(t), t.request)
           IN  /\ Commit(w)
               /\ lastCall' = Call("async_added_to_hass", None, 0, w)
        /\ tasks' = Resumed(t)
    /\ UNCHANGED <<dispatch, armed>>

\* A discovery message for this entity's discovery hash brings a new config:
\* discovery_update runs up to its first await (line 133). The code has no
\* condition on whether the entity is added.
DiscoveryUpdateOver(configs) ==
    /\ MaySubscribe
    /\ \E config \in configs :
        LET w == discovery_update(World, config)
        IN  /\ Commit(w)
            /\ tasks' = Suspended(Frame("discovery_update", w, NoRequest))
            /\ lastCall' = Call("discovery_update", None, 0, w)
    /\ UNCHANGED <<dispatch, armed>>

DiscoveryUpdate == DiscoveryUpdateOver(Configs)

\* discovery_update resumes from line 133 and calls _subscribe_topics
\* (line 134), which calls the subscription helper and waits for it.
DiscoveryUpdateSubscribes ==
    /\ dispatch.left = 0
    /\ \E t \in BagToSet(tasks) :
        /\ t.op = "discovery_update"
        /\ t.pc = 133
        /\ tasks' = Resumed(t) (+)
                 SetToBag({Moved(t, 190, SubscribeRequest(self))})
        /\ lastCall' = Call("discovery_update", None, 0,
                            [Resume(t) EXCEPT !.pc = 190])
    /\ UNCHANGED <<self, subs, timers, dispatch, armed>>

\* discovery_update from the return of the subscription helper to its end.
DiscoveryUpdateReturns ==
    /\ dispatch.left = 0
    /\ \E t \in BagToSet(tasks) :
        /\ t.op = "discovery_update"
        /\ t.pc = 190
        /\ LET w == discovery_update_resumed(Resume(t), t.request)
           IN  /\ Commit(w)
               /\ lastCall' = Call("discovery_update", None, 0, w)
        /\ tasks' = Resumed(t)
    /\ UNCHANGED <<dispatch, armed>>

\* A message is published on a topic; the transport runs the message
\* callback of the first live subscription of that topic, if there is one.
MessageReceivedOf(topic, payload) ==
    /\ dispatch.left = 0
    /\ Cardinality(timers) < MaxTimers             \* a timer handle is left
    /\ LET n == Cardinality(Subscribers(topic))
           w == IF n = 0 THEN World
                ELSE state_message_received(World, payload)
       IN  /\ Commit(w)
           /\ lastCall' = IF n = 0
                          THEN Call("state_message_received", None, 0, w)
                          ELSE Call("state_message_received", payload, 1, w)
           /\ armed' = IF n = 0 THEN armed ELSE ArmedBy(payload)
           /\ dispatch' = IF n > 1
                          THEN [topic |-> topic, payload |-> payload,
                                left |-> n - 1]
                          ELSE NoDispatch
    /\ UNCHANGED tasks

MessageReceived ==
    \E topic \in Topics, payload \in Payloads :
        MessageReceivedOf(topic, payload)

\* The transport runs the message callback of the next live subscription of
\* the topic of the message it is dispatching.
MessageReceivedAgain ==
    /\ dispatch.left > 0
    /\ Cardinality(timers) < MaxTimers
    /\ LET w == state_message_received(World, dispatch.payload)
       IN  /\ Commit(w)
           /\ lastCall' = Call("state_message_received", dispatch.payload, 1, w)
           /\ armed' = ArmedBy(dispatch.payload)
    /\ dispatch' = IF dispatch.left > 1
                   THEN [dispatch EXCEPT !.left = @ - 1]
                   ELSE NoDispatch
    /\ UNCHANGED tasks

\* One second passes; no timer is overdue.
Tick ==
    /\ dispatch.left = 0
    /\ timers # {}
    /\ \A t \in timers : t.remaining > 0
    /\ timers' = {[t EXCEPT !.remaining = @ - 1] : t \in timers}
    /\ armed' = IF armed.delay # NoDelay /\ armed.elapsed < armed.delay
                THEN [armed EXCEPT !.elapsed = @ + 1]
                ELSE armed
    /\ lastCall' = Call("tick", None, 0, World)
    /\ UNCHANGED <<self, subs, tasks, dispatch>>

\* A timer whose time is up fires: the event helper drops it and runs
\* off_delay_listener.
OffDelayExpired ==
    /\ dispatch.left = 0
    /\ \E t \in timers :
        /\ t.remaining = 0
        /\ LET w == off_delay_listener([World EXCEPT !.timers = timers \ {t}])
           IN  /\ Commit(w)
               /\ lastCall' = Call("off_delay_listener", None, 0, w)
    /\ UNCHANGED <<tasks, dispatch, armed>>

\* The host calls async_will_remove_from_hass: it calls the subscription
\* helper with the _sub_state of this moment and waits for it (line 197).
\* The code has no condition on what the host has called before.
WillRemoveFromHass ==
    /\ MayStart
    /\ LET w == [World EXCEPT !.pc = 197]
       IN  /\ tasks' = Suspended(Frame("async_will_remove_from_hass", w,
                                       UnsubscribeRequest(self)))
           /\ lastCall' = Call("async_will_remove_from_hass", None, 0, w)
    /\ UNCHANGED <<self, subs, timers, dispatch, armed>>

\* async_will_remove_from_hass from the return of the subscription helper
\* to the await of line 198 (MqttAvailability.async_will_remove_from_hass).
WillRemoveFromHassUnsubscribes ==
    /\ dispatch.left = 0
    /\ \E t \in BagToSet(tasks) :
        /\ t.op = "async_will_remove_from_hass"
        /\ t.pc = 197
        /\ LET w == async_will_remove_from_hass(Resume(t), t.request)
           IN  /\ Commit(w)
               /\ tasks' = Resumed(t) (+)
                        SetToBag({Frame(t.op, w, t.request)})
               /\ lastCall' = Call("async_will_remove_from_hass", None, 0, w)
    /\ UNCHANGED <<dispatch, armed>>

\* async_will_remove_from_hass resumes from line 198 and returns.
WillRemoveFromHassReturns ==
    /\ dispatch.left = 0
    /\ \E t \in BagToSet(tasks) :
        /\ t.op = "async_will_remove_from_hass"
        /\ t.pc = 198
        /\ tasks' = Resumed(t)
        /\ lastCall' = Call("async_will_remove_from_hass", None, 0, Resume(t))
    /\ UNCHANGED <<self, subs, timers, dispatch, armed>>


Next ==
    \/ AddedToHass
    \/ AddedToHassResumes
    \/ AddedToHassSubscribes
    \/ AddedToHassReturns
    \/ DiscoveryUpdate
    \/ DiscoveryUpdateSubscribes
    \/ DiscoveryUpdateReturns
    \/ MessageReceived
    \/ MessageReceivedAgain
    \/ Tick
    \/ OffDelayExpired
    \/ WillRemoveFromHass
    \/ WillRemoveFromHassUnsubscribes
    \/ WillRemoveFromHassReturns

Spec == Init /\ [][Next]_vars

\* The same entity over TimingConfigs, with the event loop's clock: time
\* passes, a timer whose time is up fires, and the transport finishes the
\* dispatch of a message it has begun.
TimingInit == InitOver(TimingConfigs)

TimingDiscoveryUpdate == DiscoveryUpdateOver(TimingConfigs)

TimingNext ==
    \/ AddedToHass
    \/ AddedToHassResumes
    \/ AddedToHassSubscribes
    \/ AddedToHassReturns
    \/ TimingDiscoveryUpdate
    \/ DiscoveryUpdateSubscribes
    \/ DiscoveryUpdateReturns
    \/ MessageReceived
    \/ MessageReceivedAgain
    \/ Tick
    \/ OffDelayExpired
    \/ WillRemoveFromHass
    \/ WillRemoveFromHassUnsubscribes
    \/ WillRemoveFromHassReturns

FairSpec ==
    /\ TimingInit
    /\ [][TimingNext]_vars
    /\ SF_vars(Tick)
    /\ SF_vars(OffDelayExpired)
    /\ WF_vars(MessageReceivedAgain)

\* ================================================================ claims
\* The subscription _sub_state holds, when it is live.
Held == {s \in subs : s.id = self._sub_state}

\* A step in which a published message reached the entity's message callback.
Delivered == lastCall'.op = "state_message_received" /\ lastCall'.calls = 1

\* The payload the delivered message is compared by, under the configuration
\* the entity holds when the message arrives.
Effective == EffectivePayload(self, lastCall'.payload)

\* C1 (as stated): after a delivered message, for every payload, the state is
\* true if the effective payload equals payload_on, false if it equals
\* payload_off, and otherwise unchanged with one diagnostic emitted.
C1_Original ==
    [][Delivered =>
        /\ (Effective = self._payload_on => self'._state = "True")
        /\ (Effective = self._payload_off => self'._state = "False")
        /\ (Effective # self._payload_on /\ Effective # self._payload_off =>
                self'._state = self._state /\ lastCall'.diag = 1)]_vars

\* C1 (amended): after a delivered message, for every payload, the state is
\* true if the effective payload equals payload_on, false if it equals
\* payload_off and not payload_on, and otherwise unchanged with one diagnostic
\* emitted; a matched message emits no diagnostic.
C1_MessageSetsState ==
    [][Delivered =>
        /\ (Effective = self._payload_on =>
                self'._state = "True" /\ lastCall'.diag = 0)
        /\ (Effective # self._payload_on /\ Effective = self._payload_off =>
                self'._state = "False" /\ lastCall'.diag = 0)
        /\ (Effective # self._payload_on /\ Effective # self._payload_off =>
                self'._state = self._state /\ lastCall'.diag = 1)]_vars

\* C1 witness: the empty payload was delivered, matched neither token, was
\* reported once, and left an entity that was on, on.
C1_Witness ==
    /\ lastCall.op = "state_message_received"
    /\ lastCall.calls = 1
    /\ lastCall.payload = ""
    /\ lastCall.diag = 1
    /\ self._state = "True"

\* C2: in every reachable state at most one off-delay timer is live, and it is
\* the one _delay_listener holds; a callback that scheduled a timer while one
\* was pending has cancelled that one.
C2_AtMostOneTimer ==
    /\ Cardinality(timers) <= 1
    /\ \A t \in timers : t.id = self._delay_listener
    /\ (self._delay_listener # NoHandle => timers # {})
    /\ (lastCall.scheduled >= 1 => Cardinality(timers) = 1)

\* C2 witness: a message arrived while a timer was pending, cancelled it and
\* scheduled a new one.
C2_Witness ==
    /\ lastCall.op = "state_message_received"
    /\ lastCall.cancelled = 1
    /\ lastCall.scheduled = 1
    /\ Cardinality(timers) = 1

\* The last matched message turned the entity on with off_delay set.
Armed == armed.delay # NoDelay

\* The callback that ran last is the message callback, for a matched payload.
JustMatched == lastCall.op = "state_message_received" /\ lastCall.refresh = 1

\* C4: with off_delay set, once a message has set the state to true and while
\* no further matched message arrives, the state is true at every instant
\* before off_delay has elapsed, and the timer eventually sets it to false.
C4_AutoOff ==
    /\ [](Armed /\ armed.elapsed < armed.delay => self._state = "True")
    /\ (Armed /\ ~JustMatched) ~> (self._state = "False" \/ JustMatched)

\* C4 witness: the longest off_delay has elapsed since the last on-message,
\* and the timer has just set the state to false.
C4_Witness ==
    /\ Armed
    /\ armed.delay = MaxDelay
    /\ armed.elapsed = armed.delay
    /\ lastCall.op = "off_delay_listener"
    /\ self._state = "False"

\* A delivered on-message that finds a timer pending and off_delay set.
Supersedes ==
    /\ Delivered
    /\ Effective = self._payload_on
    /\ self._off_delay # NoDelay
    /\ timers # {}

\* C3: with off_delay set, an on-message that arrives while a timer is pending
\* cancels that timer, which never fires: the only live timer afterwards runs
\* for the full off_delay from this message; the state stays true until the
\* off_delay has elapsed since the most recent on-message, a timer fires
\* (setting the state to false) only then, and the state is false once that
\* timer is gone.
C3_TimerSupersession ==
    [][/\ Supersedes =>
            /\ lastCall'.cancelled = 1
            /\ timers' = {[id |-> self'._delay_listener,
                           remaining |-> self._off_delay]}
            /\ self'._state = "True"
       /\ lastCall'.op = "off_delay_listener" =>
            /\ Armed
            /\ armed.elapsed = armed.delay
            /\ self'._state = "False"
       /\ (Armed' /\ armed'.elapsed < armed'.delay) => self'._state = "True"
       /\ (Armed' /\ timers' = {}) => self'._state = "False"]_vars

\* C3 witness: an on-message has cancelled a pending timer; the state is
\* true and the new timer has the whole of the longest off_delay to run.
C3_Witness ==
    /\ lastCall.op = "state_message_received"
    /\ lastCall.steps = <<"cancel", "schedule", "refresh">>
    /\ Armed
    /\ armed.delay = MaxDelay
    /\ armed.elapsed = 0
    /\ self._state = "True"
    /\ timers = {[id |-> self._delay_listener, remaining |-> MaxDelay]}

\* C5: when a removal has returned, no off-delay timer is live.
C5_RemovalCancelsTimer ==
    (lastCall.op = "async_will_remove_from_hass" /\ lastCall.pc = 0) =>
        timers = {}

\* C6: a delivered message whose effective payload matches neither token
\* leaves the entity, the timer table and the subscriptions as they were,
\* cancels and schedules no timer and requests no refresh.
C6_UnmatchedChangesNothing ==
    [][(/\ Delivered
        /\ Effective # self._payload_on
        /\ Effective # self._payload_off) =>
            /\ self' = self
            /\ timers' = timers
            /\ subs' = subs
            /\ tasks' = tasks
            /\ lastCall'.refresh = 0
            /\ lastCall'.cancelled = 0
            /\ lastCall'.scheduled = 0]_vars

\* C6 witness: an unmatched message was delivered while a timer was pending
\* with less than the configured off_delay left, and the timer is still so.
C6_Witness ==
    /\ lastCall.op = "state_message_received"
    /\ lastCall.calls = 1
    /\ lastCall.diag = 1
    /\ lastCall.refresh = 0
    /\ self._off_delay # NoDelay
    /\ \E t \in timers : t.remaining < self._off_delay

\* C7 (as stated): the state changes to true only by a delivered message whose
\* effective payload equals payload_on, and to false only by one whose
\* effective payload equals payload_off; no other operation changes it.
C7_Original ==
    [][self'._state # self._state =>
        \/ self'._state = "True" /\ Delivered /\ Effective = self._payload_on
        \/ self'._state = "False" /\ Delivered /\ Effective = self._payload_off]_vars

\* C7 (amended): the state changes to true only by a delivered message whose
\* effective payload equals payload_on, and to false only by one whose
\* effective payload equals payload_off or by off_delay_listener; no other
\* operation changes it, and it never changes back to unknown.
C7_StateChangesOnlyBy ==
    [][self'._state # self._state =>
        \/ self'._state = "True" /\ Delivered /\ Effective = self._payload_on
        \/ self'._state = "False" /\ Delivered /\ Effective = self._payload_off
        \/ self'._state = "False" /\ lastCall'.op = "off_delay_listener"]_vars

\* C7 witness: the timer has set the state to false on an entity that is
\* still subscribed, after a discovery update removed off_delay.
C7_Witness ==
    /\ lastCall.op = "off_delay_listener"
    /\ self._state = "False"
    /\ self._off_delay = NoDelay
    /\ Held # {}

\* No subscription is live but the one _sub_state holds, and that one is
\* live unless _sub_state is still empty.
OnlyHeld == subs = Held /\ (self._sub_state # NoHandle => subs # {})

\* C8: activations that follow one another supersede, they do not stack. An
\* activation (_subscribe_topics in the initial add or in a discovery update)
\* that returns with no other coroutine in flight, was handed the _sub_state
\* the entity still has, and finds live the subscription _sub_state holds
\* and no other, leaves exactly one subscription: the one the new _sub_state holds,
\* on the state topic it was called for, with one unsubscribe call when there
\* was a subscription to replace. With at most one subscription live a
\* message runs at most one callback, and a removal then leaves none.
C8_OneSubscription ==
    [][/\ \A t \in BagToSet(tasks) :
            (/\ t.pc = 190
             /\ tasks = SetToBag({t})
             /\ tasks' = EmptyBag
             /\ t.request.sub_state = self._sub_state
             /\ OnlyHeld) =>
                /\ subs' = {[id |-> self'._sub_state,
                             topic |-> t.request.topic]}
                /\ self'._sub_state # NoHandle
                /\ lastCall'.unsubscribed = Cardinality(subs)
       /\ (/\ lastCall'.op = "state_message_received"
           /\ dispatch.left = 0
           /\ Cardinality(subs) <= 1) =>
                /\ lastCall'.calls <= 1
                /\ dispatch' = NoDispatch
       /\ \A t \in BagToSet(tasks) :
            (/\ t.op = "async_will_remove_from_hass"
             /\ t.pc = 197
             /\ lastCall'.op = t.op
             /\ lastCall'.pc = 198
             /\ tasks = SetToBag({t})
             /\ t.request.sub_state = self._sub_state
             /\ OnlyHeld) =>
                subs' = {}]_vars

\* C8 witness: a discovery update that moved the entity to another topic
\* has returned with nothing else in flight; it replaced the one
\* subscription, and one is live.
C8_Witness ==
    /\ lastCall.op = "discovery_update"
    /\ lastCall.pc = 0
    /\ lastCall.unsubscribed = 1
    /\ tasks = EmptyBag
    /\ self._state_topic = "home/b"
    /\ subs = {[id |-> self._sub_state, topic |-> "home/b"]}

\* C9: once the coroutines have returned, a message published on a topic
\* other than the current state topic (in particular the topic a discovery
\* update replaced) reaches no callback and changes neither the entity nor
\* the timers and requests no refresh; a message on the current state topic of
\* an entity whose subscription is live is processed exactly once, and when matched sets the state
\* and requests one refresh.
C9_TopicSwitch ==
    [][\A topic \in Topics, payload \in Payloads :
        (/\ MessageReceivedOf(topic, payload)
         /\ Held # {}
         /\ tasks = EmptyBag) =>
            /\ topic # self._state_topic =>
                  /\ lastCall'.calls = 0
                  /\ self' = self
                  /\ timers' = timers
                  /\ lastCall'.refresh = 0
            /\ topic = self._state_topic =>
                  /\ lastCall'.calls = 1
                  /\ dispatch' = NoDispatch
                  /\ EffectivePayload(self, payload) = self._payload_on =>
                        self'._state = "True" /\ lastCall'.refresh = 1
                  /\ (/\ EffectivePayload(self, payload) # self._payload_on
                      /\ EffectivePayload(self, payload) = self._payload_off) =>
                        self'._state = "False" /\ lastCall'.refresh = 1]_vars

\* C10: loading a configuration sets the ten configuration attributes from it
\* and leaves _state, _sub_state, _delay_listener, the subscriptions and the
\* timers as they were; across a discovery update the state and the pending
\* timer (its handle and its remaining time) are unchanged, whatever the new
\* off_delay.
C10_ConfigureFrame ==
    /\ [](\A config \in Configs :
            LET w == _setup_from_config(World, config)
            IN  /\ w.self._state = self._state
                /\ w.self._sub_state = self._sub_state
                /\ w.self._delay_listener = self._delay_listener
                /\ w.subs = subs
                /\ w.timers = timers
                /\ w.self._name = config.name
                /\ w.self._state_topic = config.state_topic
                /\ w.self._device_class = config.device_class
                /\ w.self._qos = config.qos
                /\ w.self._force_update = config.force_update
                /\ w.self._off_delay = config.off_delay
                /\ w.self._payload_on = config.payload_on
                /\ w.self._payload_off = config.payload_off
                /\ w.self._template = config.value_template
                /\ w.self._unique_id = config.unique_id)
    /\ [][lastCall'.op = "discovery_update" =>
            /\ self'._state = self._state
            /\ self'._delay_listener = self._delay_listener
            /\ timers' = timers]_vars

\* C10 witness: a discovery update removed off_delay while a timer was
\* pending, and the timer is still pending.
C10_Witness ==
    /\ lastCall.op = "discovery_update"
    /\ self._off_delay = NoDelay
    /\ self._delay_listener # NoHandle
    /\ timers # {}

\* The configuration attributes of an entity.
ConfigOf(e) ==
    [name |-> e._name, state_topic |-> e._state_topic,
     device_class |-> e._device_class, qos |-> e._qos,
     force_update |-> e._force_update, off_delay |-> e._off_delay,
     payload_on |-> e._payload_on, payload_off |-> e._payload_off,
     value_template |-> e._template, unique_id |-> e._unique_id]

\* C11: a discovery update applies the new configuration, then re-subscribes
\* (the subscription it handed to the helper is replaced by one on the state
\* topic it handed over), then requests one refresh, in this order: while it
\* waits it has requested no refresh, and the refresh is its last step.
C11_DiscoveryUpdateOrder ==
    [][lastCall'.op = "discovery_update" =>
        \/ /\ lastCall'.pc = 133
           /\ lastCall'.steps = <<"configure">>
           /\ lastCall'.refresh = 0
           /\ ConfigOf(self') \in Configs
           /\ subs' = subs
        \/ /\ lastCall'.pc = 190
           /\ lastCall'.steps = <<"configure">>
           /\ lastCall'.refresh = 0
           /\ self' = self
           /\ subs' = subs
        \/ /\ lastCall'.pc = 0
           /\ lastCall'.steps = <<"configure", "subscribe", "refresh">>
           /\ lastCall'.refresh = 1
           /\ \E t \in BagToSet(tasks) :
                /\ t.op = "discovery_update"
                /\ t.pc = 190
                /\ tasks' = Resumed(t)
                /\ [id |-> self'._sub_state, topic |-> t.request.topic] \in subs'
                /\ \A s \in subs' :
                      \/ s.id = self'._sub_state
                      \/ s \in subs /\ s.id # t.request.sub_state
                /\ lastCall'.unsubscribed =
                      IF t.request.sub_state # NoHandle THEN 1 ELSE 0]_vars

\* C11 witness: a discovery update of a subscribed entity has returned; it
\* replaced the subscription and requested its refresh last.
C11_Witness ==
    /\ lastCall.op = "discovery_update"
    /\ lastCall.pc = 0
    /\ lastCall.steps[3] = "refresh"
    /\ lastCall.unsubscribed = 1
    /\ subs = {[id |-> self._sub_state, topic |-> self._state_topic]}

\* C12: a removal whose helper returns with no other coroutine in flight
\* tears down the subscription it was called for and no other, and leaves
\* the timers as they were; it makes one unsubscribe call when the
\* subscription it was called for is live, and none otherwise (a removal
\* repeated after one that has returned finds it torn down already).
C12_DeactivateIdempotent ==
    [][\A t \in BagToSet(tasks) :
        (/\ t.op = "async_will_remove_from_hass"
         /\ t.pc = 197
         /\ lastCall'.op = t.op
         /\ lastCall'.pc = 198
         /\ tasks = SetToBag({t})) =>
            /\ subs' = {s \in subs : s.id # t.request.sub_state}
            /\ timers' = timers
            /\ lastCall'.unsubscribed =
                  IF \E s \in subs : s.id = t.request.sub_state
                  THEN 1 ELSE 0]_vars

\* A delivered message whose effective payload equals one of the tokens.
Matched ==
    /\ Delivered
    /\ (Effective = self._payload_on \/ Effective = self._payload_off)

\* C13: a matched message, whichever state it sets, cancels the pending timer
\* first; a timer live afterwards is the one this message scheduled; after a
\* matched off-message no timer is live, and none is live, and none fires,
\* until a later on-message arms one.
C13_MatchedCancelsTimer ==
    [][/\ Matched =>
            /\ timers # {} =>
                  lastCall'.cancelled = 1 /\ lastCall'.steps[1] = "cancel"
            /\ \A t \in timers' :
                  /\ lastCall'.scheduled = 1
                  /\ t.id = self'._delay_listener
                  /\ t.remaining = self._off_delay
            /\ self'._state = "False" =>
                  timers' = {} /\ self'._delay_listener = NoHandle
       /\ ~Armed' => timers' = {}
       /\ lastCall'.op = "off_delay_listener" => Armed]_vars

\* C13 witness: an off-message arrived while a timer was pending and
\* cancelled it; no timer is live.
C13_Witness ==
    /\ lastCall.op = "state_message_received"
    /\ lastCall.steps = <<"cancel", "refresh">>
    /\ self._state = "False"
    /\ self._off_delay # NoDelay
    /\ timers = {}

\* C14: off_delay_listener, whenever it runs, clears _delay_listener (no timer
\* is live afterwards), sets the state to false and requests one refresh; the
\* configuration attributes and the subscription are as before.
C14_OffDelayListenerEffect ==
    [][lastCall'.op = "off_delay_listener" =>
        /\ self'._delay_listener = NoHandle
        /\ timers' = {}
        /\ self'._state = "False"
        /\ lastCall'.refresh = 1
        /\ lastCall'.steps = <<"refresh">>
        /\ ConfigOf(self') = ConfigOf(self)
        /\ self'._sub_state = self._sub_state
        /\ subs' = subs
        /\ tasks' = tasks
        /\ dispatch' = dispatch]_vars

\* C14 witness: the timer has fired on an added, subscribed entity.
C14_Witness ==
    /\ lastCall.op = "off_delay_listener"
    /\ lastCall.refresh = 1
    /\ self._state = "False"
    /\ self._delay_listener = NoHandle
    /\ timers = {}
    /\ subs # {}

\* C15: a matched message requests exactly one refresh, also when the state
\* it sets is the state the entity had, and the refresh is its last step,
\* after the timer was cancelled and scheduled.
C15_OneRefreshPerMatched ==
    [][Matched =>
        /\ lastCall'.refresh = 1
        /\ lastCall'.steps \in
              { <<"refresh">>, <<"cancel", "refresh">>,
                <<"schedule", "refresh">>,
                <<"cancel", "schedule", "refresh">> }]_vars

\* C15 witness: an on-message arrived at an entity that was on with a timer
\* pending; it cancelled, scheduled and then requested its one refresh.
C15_Witness ==
    /\ lastCall.op = "state_message_received"
    /\ lastCall.steps = <<"cancel", "schedule", "refresh">>
    /\ lastCall.refresh = 1
    /\ lastCall.calls = 1
    /\ self._state = "True"
    /\ Held # {}

\* C16: an off_delay of zero counts as set. An on-message under off_delay 0
\* sets the state to true and schedules a timer with nothing left to run, so
\* the state is true when the message has been handled, and the timer
\* eventually sets it to false unless a further matched message arrives; an
\* on-message schedules no timer only when off_delay is absent.
C16_ZeroDelayCounts ==
    /\ [][Delivered /\ Effective = self._payload_on =>
            /\ self'._state = "True"
            /\ self._off_delay = 0 =>
                  /\ lastCall'.scheduled = 1
                  /\ timers' = {[id |-> self'._delay_listener, remaining |-> 0]}
            /\ lastCall'.scheduled = 0 <=> self._off_delay = NoDelay]_vars
    /\ (Armed /\ armed.delay = 0 /\ ~JustMatched)
            ~> (self._state = "False" \/ JustMatched)

\* C16 witness: an on-message has been handled under off_delay 0; the state
\* is true and the zero-delay timer is live.
C16_Witness ==
    /\ lastCall.op = "state_message_received"
    /\ lastCall.scheduled = 1
    /\ self._off_delay = 0
    /\ self._state = "True"
    /\ \E t \in timers : t.id = self._delay_listener /\ t.remaining = 0

\* C17: the state is unknown after construction and stays unknown through
\* every step that is not a matched message; a matched message makes it known,
\* and no step, reconfiguration and removal included, makes it unknown again.
C17_UnknownUntilMatched ==
    /\ self._state = None
    /\ [][/\ (self._state = None /\ ~Matched) => self'._state = None
          /\ Matched => self'._state # None
          /\ self._state # None => self'._state # None]_vars

\* C17 witness: the entity is subscribed, a coroutine is in flight, an
\* unmatched message has been delivered, and the state is still unknown.
C17_Witness ==
    /\ self._state = None
    /\ Held # {}
    /\ tasks # EmptyBag
    /\ lastCall.op = "state_message_received"
    /\ lastCall.calls >= 1
    /\ lastCall.diag = 1

\* C18: in every reachable state, a live off-delay timer, and likewise a held
\* timer handle, implies that the state is true.
C18_TimerImpliesOn ==
    /\ timers # {} => self._state = "True"
    /\ self._delay_listener # NoHandle => self._state = "True"

\* C18 witness: a timer is pending when a removal has returned while
\* another coroutine is in flight; the state is true.
C18_Witness ==
    /\ timers # {}
    /\ self._state = "True"
    /\ tasks # EmptyBag
    /\ lastCall.op = "async_will_remove_from_hass"
    /\ lastCall.pc = 0

\* C19: with payload_on and payload_off the same string, a delivered message
\* whose effective payload is that string sets the state to true, and
\* schedules the off-delay timer exactly when off_delay is set.
C19_SameTokenMeansOn ==
    [][(Delivered /\ self._payload_on = self._payload_off
                  /\ Effective = self._payload_on) =>
        /\ self'._state = "True"
        /\ self._off_delay # NoDelay =>
              /\ lastCall'.scheduled = 1
              /\ timers' = {[id |-> self'._delay_listener,
                             remaining |-> self._off_delay]}
        /\ self._off_delay = NoDelay =>
              lastCall'.scheduled = 0 /\ timers' = {}]_vars

\* C19 witness: under equal tokens a message with that token has been
\* handled; the state is true and the timer it scheduled is live.
C19_Witness ==
    /\ lastCall.op = "state_message_received"
    /\ lastCall.payload = self._payload_on
    /\ self._payload_on = self._payload_off
    /\ self._state = "True"
    /\ lastCall.scheduled = 1
    /\ timers # {}

====
